---- MODULE Spec2Model ----
(***************************************************************************)
(* StreamWeaverProcessor (src/src/StreamProcessor.js): an in-memory set of *)
(* message ids, a processMessage that checks the set, marks a new id and   *)
(* then invokes executeBusinessLogic, and getUniqueCount.                  *)
(*                                                                         *)
(* Three specifications share the processor's operators:                     *)
(*   Spec        processMessage calls on one processor.  A call runs to    *)
(*               completion up to its invocation of executeBusinessLogic   *)
(*               (JavaScript has no preemption between lines 23 and 36);   *)
(*               the business logic is an overridable placeholder, so its  *)
(*               outcome (normal return or exception) is chosen freely and *)
(*               other calls may arrive on the same processor while it is  *)
(*               running (a re-entrant delivery from inside the effect).   *)
(*   SpecStream  the forEach loop of the demo: whole processMessage calls, *)
(*               one after the other, with the business logic as written   *)
(*               (it always returns).                                      *)
(*   SpecModule  the module as a whole: loading it runs the demo on the    *)
(*               module's own processor, then exports the class; the       *)
(*               importing code constructs processors of its own and       *)
(*               delivers messages to them (whole calls, effect as written).*)
(* durationMs (two Date.now() readings) is not modelled: nothing reads it. *)
(***************************************************************************)
EXTENDS Integers, Sequences, FiniteSets, TLC

\* Number of processMessage calls made on the processor under Spec.
MaxCalls == 3

\* Longest message stream delivered under SpecStream.
MaxStreamLen == 6

\* message.id values (the ids of the demo's messageStream).
Ids == {"A1", "B2", "C3", "D4"}

\* message.data values: opaque to the processor.
Payloads == {"d1", "d2"}

\* A message object: { id, data }.
Messages == [id : Ids, data : Payloads]

Calls == 1..MaxCalls

\* Longest stream the importing code delivers to one of its processors.
MaxImportLen == 3

\* The processors the importing code constructs.
Instances == {"p", "q"}

\* The messages the importing code delivers.
ImportMessages ==
    [id : {"A1", "B2"}, data : Payloads] \cup {[id |-> "C3", data |-> "d1"]}

\* messageStream (lines 72-79): the duplicates carry other data.
DemoStream ==
    << [id |-> "A1", data |-> "d1"], [id |-> "B2", data |-> "d1"],
       [id |-> "A1", data |-> "d2"], [id |-> "C3", data |-> "d1"],
       [id |-> "B2", data |-> "d2"], [id |-> "D4", data |-> "d1"] >>

VARIABLES
    processedMessages,  \* this.processedMessages: the Set of recorded ids
    pc,                 \* call -> "idle" | "effect" | "returned" | "thrown"
    msg,                \* call -> the message passed in
    isNew,              \* call -> the local isNew of line 27
    result,             \* call -> <<>> or <<the record returned to the caller>>
    arrival,            \* call -> state of the id's effect when the call checked it
    execCount,          \* id -> number of executeBusinessLogic invocations
    effect,             \* id -> "none" | "running" | "ok" | "failed" (latest invocation)
    stream,             \* SpecStream: the messages delivered so far, in order
    results,            \* SpecStream: the records returned so far, in order
    loaded,             \* SpecModule: the module body has run (module.exports is set)
    instances           \* SpecModule: the processors the importing code constructs

vars == <<processedMessages, pc, msg, isNew, result, arrival, execCount, effect,
          stream, results, loaded, instances>>

callVars == <<pc, msg, isNew, result, arrival>>
streamVars == <<stream, results>>
moduleVars == <<loaded, instances>>

\* ------------------------------------------------------------------------
\* The processor's operators.

\* constructor: this.processedMessages = new Set()
EmptySet == {}

\* const messageId = message.id
MessageIdWithData(m) == <<m.id, m.data>>
MessageId(m) == m.id

\* this.processedMessages, for the processor i of the importing code
ModuleProcessedMessages(i) == processedMessages
ThisProcessedMessages(i) == instances[i].processedMessages

\* processedMessages.has(messageId)
HasNever(pm, id) == FALSE
Has(pm, id) == id \in pm

\* const isNew = !this.processedMessages.has(messageId)
IsNewAlways(pm, id) == TRUE
IsNewInverted(pm, id) == Has(pm, id)
IsNew(pm, id) == ~Has(pm, id)

\* this.processedMessages.add(messageId)
MarkDropped(pm, id) == pm
MarkReplacing(pm, id) == {id}
Mark(pm, id) == pm \cup {id}

\* return { id: messageId, durationMs, processed: isNew, isNew: isNew }
OutcomeAlwaysProcessed(id, new) == [id |-> id, processed |-> TRUE, isNew |-> new]
Outcome(id, new) == [id |-> id, processed |-> new, isNew |-> new]

\* getUniqueCount(): this.processedMessages.size
GetUniqueCount(pm) == Cardinality(pm)

\* A processor not constructed yet, and new StreamWeaverProcessor().
NoProcessor ==
    [constructed |-> FALSE, processedMessages |-> {}, stream |-> <<>>, results |-> <<>>]
NewProcessor ==
    [constructed |-> TRUE, processedMessages |-> EmptySet, stream |-> <<>>,
     results |-> <<>>]

\* ------------------------------------------------------------------------
\* Spec: calls on one processor.

Init ==
    /\ processedMessages = EmptySet
    /\ pc = [c \in Calls |-> "idle"]
    /\ msg = [c \in Calls |-> [id |-> "A1", data |-> "d1"]]
    /\ isNew = [c \in Calls |-> FALSE]
    /\ result = [c \in Calls |-> <<>>]
    /\ arrival = [c \in Calls |-> "none"]
    /\ execCount = [i \in Ids |-> 0]
    /\ effect = [i \in Ids |-> "none"]
    /\ stream = <<>>
    /\ results = <<>>
    /\ loaded = FALSE
    /\ instances = [i \in Instances |-> NoProcessor]

\* processMessage up to and including the invocation of executeBusinessLogic
\* (lines 23-36), and to its return (lines 39-46) when the if is skipped.
ProcessMessage(c, m) ==
    /\ pc[c] = "idle"
    /\ LET new == IsNew(processedMessages, m.id) IN
        /\ msg' = [msg EXCEPT ![c] = m]
        /\ isNew' = [isNew EXCEPT ![c] = new]
        /\ arrival' = [arrival EXCEPT ![c] = effect[m.id]]
        /\ IF new
           THEN /\ processedMessages' = Mark(processedMessages, m.id)
                /\ execCount' = [execCount EXCEPT ![m.id] = @ + 1]
                /\ effect' = [effect EXCEPT ![m.id] = "running"]
                /\ pc' = [pc EXCEPT ![c] = "effect"]
                /\ UNCHANGED result
           ELSE /\ pc' = [pc EXCEPT ![c] = "returned"]
                /\ result' = [result EXCEPT ![c] = <<Outcome(m.id, new)>>]
                /\ UNCHANGED <<processedMessages, execCount, effect>>
    /\ UNCHANGED <<streamVars, moduleVars>>

\* executeBusinessLogic returns; processMessage goes on to lines 39-46.
EffectReturns(c) ==
    /\ pc[c] = "effect"
    /\ effect' = [effect EXCEPT ![msg[c].id] = "ok"]
    /\ pc' = [pc EXCEPT ![c] = "returned"]
    /\ result' = [result EXCEPT ![c] = <<Outcome(msg[c].id, isNew[c])>>]
    /\ UNCHANGED <<processedMessages, msg, isNew, arrival, execCount, streamVars, moduleVars>>

\* executeBusinessLogic throws; processMessage has no try/catch, so the exception
\* leaves it at line 36: nothing is returned and nothing is undone.
EffectThrows(c) ==
    /\ pc[c] = "effect"
    /\ effect' = [effect EXCEPT ![msg[c].id] = "failed"]
    /\ pc' = [pc EXCEPT ![c] = "thrown"]
    /\ UNCHANGED <<processedMessages, msg, isNew, result, arrival, execCount, streamVars, moduleVars>>

Next ==
    \/ \E c \in Calls, m \in Messages : ProcessMessage(c, m)
    \/ \E c \in Calls : EffectReturns(c)
    \/ \E c \in Calls : EffectThrows(c)

Spec == Init /\ [][Next]_vars

\* ------------------------------------------------------------------------
\* SpecStream: messageStream.forEach(msg => processor.processMessage(msg)).

\* One whole processMessage call whose business logic returns.
Deliver(m) ==
    /\ Len(stream) < MaxStreamLen
    /\ LET new == IsNew(processedMessages, m.id) IN
        /\ processedMessages' =
              IF new THEN Mark(processedMessages, m.id) ELSE processedMessages
        /\ execCount' =
              IF new THEN [execCount EXCEPT ![m.id] = @ + 1] ELSE execCount
        /\ effect' = IF new THEN [effect EXCEPT ![m.id] = "ok"] ELSE effect
        /\ stream' = Append(stream, m)
        /\ results' = Append(results, Outcome(m.id, new))
    /\ UNCHANGED <<callVars, moduleVars>>

NextStream == \E m \in Messages : Deliver(m)

SpecStream == Init /\ [][NextStream]_vars

\* ------------------------------------------------------------------------
\* SpecModule: require('./StreamProcessor') and the importing code.

\* The module body's forEach (lines 83-93): the next message of messageStream goes
\* to the module's own processor.
DemoStep ==
    /\ ~loaded
    /\ Len(stream) < Len(DemoStream)
    /\ Deliver(DemoStream[Len(stream) + 1])

\* module.exports = StreamWeaverProcessor (line 101), after the demo has run.
Export ==
    /\ ~loaded
    /\ Len(stream) = Len(DemoStream)
    /\ loaded' = TRUE
    /\ UNCHANGED <<processedMessages, callVars, execCount, effect, streamVars, instances>>

\* The importing code: new StreamWeaverProcessor().
Construct(i) ==
    /\ loaded
    /\ ~instances[i].constructed
    /\ instances' = [instances EXCEPT ![i] = NewProcessor]
    /\ UNCHANGED <<processedMessages, callVars, execCount, effect, streamVars, loaded>>

\* The importing code: one whole processMessage call on its processor i.
DeliverTo(i, m) ==
    /\ loaded
    /\ instances[i].constructed
    /\ Len(instances[i].stream) < MaxImportLen
    /\ LET messageId == MessageId(m)
           pm == ThisProcessedMessages(i)
           new == IsNew(pm, messageId)
       IN instances' = [instances EXCEPT ![i] =
              [constructed |-> TRUE,
               processedMessages |-> IF new THEN Mark(pm, messageId) ELSE pm,
               stream |-> Append(@.stream, m),
               results |-> Append(@.results, Outcome(messageId, new))]]
    /\ UNCHANGED <<processedMessages, callVars, execCount, effect, streamVars, loaded>>

NextModule ==
    \/ DemoStep
    \/ Export
    \/ \E i \in Instances : Construct(i)
    \/ \E i \in Instances, m \in ImportMessages : DeliverTo(i, m)

SpecModule == Init /\ [][NextModule]_vars

\* ------------------------------------------------------------------------
\* Helpers of the properties.

\* The calls that have checked id (they are past line 27).
CallsFor(id) == {c \in Calls : pc[c] /= "idle" /\ msg[c].id = id}

\* No executeBusinessLogic invocation is running.
Quiescent == \A c \in Calls : pc[c] /= "effect"

\* The ids for which a call has returned processed = true.
ReturnedProcessedIds ==
    {msg[c].id : c \in {d \in Calls : pc[d] = "returned" /\ result[d][1].processed}}

RECURSIVE SumOver(_, _)
SumOver(f, S) ==
    IF S = {} THEN 0
    ELSE LET x == CHOOSE y \in S : TRUE IN f[x] + SumOver(f, S \ {x})

\* Number of executeBusinessLogic invocations made so far.
TotalExec == SumOver(execCount, Ids)

\* The ids of a stream, in order.
IdsOf(s) == [i \in 1..Len(s) |-> s[i].id]

\* The processed flags of a sequence of returned records, in order.
ProcessedOf(r) == [i \in 1..Len(r) |-> r[i].processed]

\* stream[i] is the first message of the stream with its id.
FirstOccurrence(s, i) == \A j \in 1..(i - 1) : s[j].id /= s[i].id

\* Position of the latest delivery of id, and the deliveries made since.
LastTouchedAt(id) ==
    CHOOSE i \in 1..Len(stream) :
        stream[i].id = id /\ \A j \in (i + 1)..Len(stream) : stream[j].id /= id
Age(id) == Len(stream) - LastTouchedAt(id)

\* The ids of the demo's messageStream (lines 72-79).
DemoIds == <<"A1", "B2", "A1", "C3", "B2", "D4">>

\* The source has no retention window. Time is counted in deliveries, and the
\* window is the longest one that a stream of pairwise distinct ids of the model
\* outlasts: a record that outlives it outlives every shorter window too.
RetentionWindow == Cardinality(Ids) - 2

\* ------------------------------------------------------------------------
\* Properties.

\* C1: executeBusinessLogic is invoked exactly once for each distinct id that
\* has been delivered to the processor (never zero times, never twice), and
\* never for an id that has not been delivered.
C1_EffectExactlyOncePerId ==
    \A id \in Ids : execCount[id] = IF CallsFor(id) /= {} THEN 1 ELSE 0

\* C1 witness: an id delivered by three calls, its effect invoked once.
C1_Witness ==
    \E id \in Ids : Cardinality(CallsFor(id)) >= 3 /\ execCount[id] = 1

\* C2: an id is in processedMessages only after its business effect has
\* returned successfully.
C2_MarkedOnlyAfterSuccess ==
    \A id \in processedMessages : effect[id] = "ok"

\* C3: a delivery of X that arrives after X's business effect has failed is
\* treated as new (isNew = true), not skipped as a duplicate.
C3_RollbackReadmits ==
    \A c \in Calls : (pc[c] /= "idle" /\ arrival[c] = "failed") => isNew[c]

\* C4: of N >= 2 calls for the same id on one processor, exactly one is
\* admitted (isNew = true, it runs the business logic) and the other N-1 are
\* rejected: they return processed = false.
C4_ExactlyOneAdmission ==
    \A id \in Ids :
        Cardinality(CallsFor(id)) >= 2 =>
            /\ Cardinality({c \in CallsFor(id) : isNew[c]}) = 1
            /\ \A c \in CallsFor(id) :
                  ~isNew[c] => /\ pc[c] = "returned"
                               /\ result[c] = <<[id |-> id, processed |-> FALSE,
                                                isNew |-> FALSE]>>

\* C4 witness: two calls for one id in progress together: the admitted one is
\* still in its business logic when the other one has checked the id.
C4_Witness ==
    \E c, d \in Calls :
        /\ c /= d
        /\ msg[c].id = msg[d].id
        /\ pc[c] = "effect"
        /\ pc[d] /= "idle" /\ arrival[d] = "running"

\* C5: delivered one after the other with a succeeding effect, the i-th
\* message is reported processed/new iff no earlier message of the stream had
\* its id; the demo stream yields [new, new, dup, new, dup, new] and a unique
\* count of 4.
C5_FirstOccurrenceProcessed ==
    /\ Len(results) = Len(stream)
    /\ \A i \in 1..Len(results) :
          /\ results[i].id = stream[i].id
          /\ results[i].processed = FirstOccurrence(stream, i)
          /\ results[i].isNew = FirstOccurrence(stream, i)
    /\ IdsOf(stream) = DemoIds =>
          /\ ProcessedOf(results) = <<TRUE, TRUE, FALSE, TRUE, FALSE, TRUE>>
          /\ GetUniqueCount(processedMessages) = 4

\* C5 witness: the demo stream has been delivered.
C5_Witness == IdsOf(stream) = DemoIds /\ Len(results) = Len(DemoIds)

\* C6: a call for an id that is already recorded returns processed = false and
\* isNew = false at once, invokes no business logic and leaves
\* processedMessages (so getUniqueCount()) as it was.
C6_DuplicateHasNoEffect ==
    [][\A c \in Calls :
          (pc[c] = "idle" /\ pc'[c] /= "idle" /\ msg'[c].id \in processedMessages) =>
              /\ pc'[c] = "returned"
              /\ result'[c] = <<[id |-> msg'[c].id, processed |-> FALSE,
                                 isNew |-> FALSE]>>
              /\ processedMessages' = processedMessages
              /\ GetUniqueCount(processedMessages') = GetUniqueCount(processedMessages)
              /\ execCount' = execCount
              /\ effect' = effect]_vars

\* C6 witness: a call has been made for an id whose effect had already
\* succeeded, and it was skipped.
C6_Witness ==
    \E c \in Calls : pc[c] = "returned" /\ arrival[c] = "ok" /\ ~isNew[c]

\* C7: a delivery of X that arrives while X's business effect is running is
\* not skipped as a duplicate unless that effect has succeeded.
C7_InFlightNotSkipped ==
    \A c \in Calls :
        (pc[c] = "returned" /\ arrival[c] = "running" /\ ~result[c][1].processed)
            => effect[msg[c].id] = "ok"

\* C8: records older than the retention window (not delivered again within it)
\* are purged, so the seen-set holds no more ids than the window admits.
C8_SeenSetBounded ==
    /\ \A id \in processedMessages : Age(id) <= RetentionWindow
    /\ GetUniqueCount(processedMessages) <= RetentionWindow + 1

\* C9: whenever no business logic is running, getUniqueCount() equals the
\* number of distinct ids for which processMessage has returned processed =
\* true, and the number of executeBusinessLogic invocations.
C9_CountMatchesProcessed ==
    Quiescent =>
        /\ GetUniqueCount(processedMessages) = Cardinality(ReturnedProcessedIds)
        /\ GetUniqueCount(processedMessages) = TotalExec

\* C10: every finished processMessage call, one whose business effect failed
\* included, has yielded a record with the id of its message and processed =
\* isNew.
C10_EveryCallYieldsRecord ==
    \A c \in Calls :
        pc[c] \in {"returned", "thrown"} =>
            /\ Len(result[c]) = 1
            /\ result[c][1].id = msg[c].id
            /\ result[c][1].processed = isNew[c]
            /\ result[c][1].isNew = isNew[c]

IdSetOf(st) == {st[k].id : k \in 1..Len(st)}

\* The isNew flags of a sequence of returned records, in order.
IsNewOf(r) == [k \in 1..Len(r) |-> r[k].isNew]

\* stream[k] repeats the id of an earlier message that carried other data.
RepeatsIdWithOtherData(st, k) ==
    \E j \in 1..(k - 1) : st[j].id = st[k].id /\ st[j].data /= st[k].data

\* The processors the importing code has constructed.
Constructed == {i \in Instances : instances[i].constructed}

\* C12: two processors that received the same sequence of ids, whatever the
\* payloads, returned the same processed/isNew flags and hold the same set; a
\* message with an id seen before and other data is skipped.
C12_DedupByIdAlone ==
    /\ \A i, j \in Constructed :
          IdsOf(instances[i].stream) = IdsOf(instances[j].stream) =>
              /\ ProcessedOf(instances[i].results) = ProcessedOf(instances[j].results)
              /\ IsNewOf(instances[i].results) = IsNewOf(instances[j].results)
              /\ instances[i].processedMessages = instances[j].processedMessages
    /\ \A i \in Constructed : \A k \in 1..Len(instances[i].results) :
          RepeatsIdWithOtherData(instances[i].stream, k) =>
              ~instances[i].results[k].processed
    /\ \A k \in 1..Len(results) :
          RepeatsIdWithOtherData(stream, k) => ~results[k].processed

\* C12 witness: two processors got the same ids with different payloads, and
\* one of them got an id again with other data.
C12_Witness ==
    \E i, j \in Constructed :
        /\ IdsOf(instances[i].stream) = IdsOf(instances[j].stream)
        /\ instances[i].stream /= instances[j].stream
        /\ \E k \in 1..Len(instances[i].stream) :
              RepeatsIdWithOtherData(instances[i].stream, k)

\* C13: a fresh processor ends with processedMessages equal to the set of ids
\* delivered to it and getUniqueCount() equal to their number, so two streams
\* with the same set of ids (any order, any repeats) leave the same state; and
\* delivering the message just delivered once more changes nothing.
C13_StateDependsOnIdSet ==
    [][/\ \A i \in Instances :
             /\ instances'[i].processedMessages = IdSetOf(instances'[i].stream)
             /\ GetUniqueCount(instances'[i].processedMessages)
                   = Cardinality(IdSetOf(instances'[i].stream))
       /\ \A i, j \in Instances :
             IdSetOf(instances'[i].stream) = IdSetOf(instances'[j].stream) =>
                 /\ instances'[i].processedMessages = instances'[j].processedMessages
                 /\ GetUniqueCount(instances'[i].processedMessages)
                       = GetUniqueCount(instances'[j].processedMessages)
       /\ \A i \in Instances :
             LET n == Len(instances[i].stream) IN
             (/\ n >= 1
              /\ Len(instances'[i].stream) = n + 1
              /\ instances'[i].stream[n + 1] = instances[i].stream[n]) =>
                 instances'[i].processedMessages = instances[i].processedMessages]_vars

\* C13 witness: two processors got streams of different length and order with
\* the same set of two or more ids, one of them with a message twice in a row.
C13_Witness ==
    \E i, j \in Constructed :
        /\ IdSetOf(instances[i].stream) = IdSetOf(instances[j].stream)
        /\ Cardinality(IdSetOf(instances[i].stream)) >= 2
        /\ Len(instances[i].stream) /= Len(instances[j].stream)
        /\ instances[i].stream[1].id /= instances[j].stream[1].id
        /\ \E k \in 1..(Len(instances[i].stream) - 1) :
              instances[i].stream[k] = instances[i].stream[k + 1]
        /\ instances[i].processedMessages = instances[j].processedMessages

\* C14: a newly constructed processor has an empty seen-set (getUniqueCount()
\* = 0); a call on one processor changes no other processor's set; and what a
\* processor reports depends on its own deliveries only: the ids of the demo
\* that ran at load time are new to it.
C14_StatePerInstance ==
    [][/\ \A i \in Instances :
             (~instances[i].constructed /\ instances'[i].constructed) =>
                 /\ instances'[i].processedMessages = {}
                 /\ GetUniqueCount(instances'[i].processedMessages) = 0
       /\ \A i \in Instances :
             instances'[i] /= instances[i] =>
                 /\ processedMessages' = processedMessages
                 /\ \A j \in Instances \ {i} : instances'[j] = instances[j]
       /\ processedMessages' /= processedMessages => instances' = instances
       /\ \A i \in Instances :
             LET n == Len(instances'[i].stream) IN
             n = Len(instances[i].stream) + 1 =>
                 /\ instances'[i].results[n].processed
                       = FirstOccurrence(instances'[i].stream, n)
                 /\ instances'[i].processedMessages
                       = instances[i].processedMessages \cup {instances'[i].stream[n].id}]_vars

\* C14 witness: after the demo has processed A1, B2, C3 and D4, a processor of
\* the importing code processed A1 as new while another one still holds nothing.
C14_Witness ==
    /\ loaded
    /\ processedMessages = {"A1", "B2", "C3", "D4"}
    /\ \E i, j \in Constructed :
          /\ Len(instances[i].stream) >= 1
          /\ instances[i].stream[1].id = "A1"
          /\ instances[i].results[1].processed
          /\ instances[i].processedMessages = {"A1"}
          /\ instances[j].processedMessages = {}

====
